---- MODULE Spec2Model ----
(***************************************************************************)
(* State-machine model of the taskapp backend (Django REST framework):     *)
(* projects with member rosters, tasks, notifications and statistics, and  *)
(* the request handlers of taskapp/views.py with the permission classes,   *)
(* serializers and model methods they run.                                 *)
(*                                                                         *)
(* One action is one request handler (or model method / cron job) with     *)
(* every write it performs.  Django runs each ORM write in autocommit mode *)
(* and views.py opens no transaction, so the two writes of project         *)
(* creation (insert of the row, then members.add) are two steps.           *)
(***************************************************************************)
EXTENDS Integers, FiniteSets, Sequences, Bags, TLC

VARIABLES
    projects,       \* Project rows and their members m2m table, by primary key
    tasks,          \* Task rows, by primary key
    notifications,  \* Notification rows (a bag: rows differ only by primary key)
    statistics,     \* TaskStatistics rows
    now,            \* timezone.now(), in clock ticks
    response,       \* the last step: its operation and the HTTP status it answered
                    \* (0: the step is not an answered request)
    accounts,       \* User rows, by primary key
    inflight        \* the local variables of the calls that are between two
                    \* of their database writes, by worker

vars == <<projects, tasks, notifications, statistics, now, response, accounts, inflight>>

----------------------------------------------------------------------------
(* Bounds of the model *)

MaxProjects == 1
MaxTasks == 1
MaxNotifications == 2
MaxTime == 2
TicksPerDay == 2
MaxStatistics == 2
MaxCount == 10
MaxWorkers == 2
MaxListed == 3
MaxScanTime == 4
MaxScanned == 5

(* Users.  The accounts exist before the first request; role is set at      *)
(* registration.                                                            *)
Users == {"prof1", "stud1", "stud2"}
UnknownUser == "nobody"            \* a primary key no User row has
UserIdInputs == Users \cup {UnknownUser}

role(u) == accounts[u].role

ROLE_CHOICES == {"STUDENT", "PROFESSOR"}
STATUS_CHOICES == {"TODO", "IN_PROGRESS", "COMPLETED"}
TYPE_CHOICES == {"TASK_ASSIGNED", "TASK_DUE_SOON", "TASK_OVERDUE", "TASK_COMPLETED",
                 "PROJECT_INVITATION"}

ProjectIds == 1..MaxProjects
TaskIds == 1..MaxTasks
UnknownId == 0                     \* a primary key no Project/Task row has
NoDate == -1                       \* completion_date IS NULL
Omitted == -2                      \* a numeric request field that is not sent
NoUser == ""
Titles == {"a", "b"}

----------------------------------------------------------------------------
(* Rows *)

FreeProject == [st |-> "free", title |-> "", creator |-> NoUser, members |-> {}]
GoneProject == [st |-> "gone", title |-> "", creator |-> NoUser, members |-> {}]

FreeTask == [st |-> "free", project |-> 0, assigned_to |-> NoUser, created_by |-> NoUser,
             status |-> "", due_date |-> 0, completion_date |-> NoDate, priority |-> 0]
GoneTask == [FreeTask EXCEPT !.st = "gone"]

LiveProjects == {p \in ProjectIds : projects[p].st = "live"}
LiveTasks == {t \in DOMAIN tasks : tasks[t].st = "live"}

(* Auto-increment primary keys: the next key is the first one never used.  *)
FreeProjectIds == {p \in ProjectIds : projects[p].st = "free"}
FreeTaskIds == {t \in TaskIds : tasks[t].st = "free"}
Min(S) == CHOOSE x \in S : \A y \in S : x <= y

Notif(u, type, t, p) ==
    [user |-> u, type |-> type, related_task |-> t, related_project |-> p,
     created_at |-> now, read |-> FALSE]

(* Rows of bag B that satisfy Keep. *)
BagFilter(B, Keep(_)) ==
    LET S == {n \in BagToSet(B) : Keep(n)} IN [n \in S |-> B[n]]

Answer(op, status) == [op |-> op, status |-> status]

(* The User rows after registration: prof1 registered as PROFESSOR, the    *)
(* others as STUDENT.                                                       *)
RegisteredUsers ==
    [u \in Users |->
        [role |-> IF u = "prof1" THEN "PROFESSOR" ELSE "STUDENT", first_name |-> "a"]]

(* Workers that serve requests at the same time; a worker with no call in  *)
(* progress is Idle.                                                        *)
Workers == 1..MaxWorkers
Idle == [pc |-> "idle"]

Init ==
    /\ projects = [p \in ProjectIds |-> FreeProject]
    /\ tasks = [t \in TaskIds |-> FreeTask]
    /\ notifications = EmptyBag
    /\ statistics = {}
    /\ now = 0
    /\ response = Answer("none", 0)
    /\ accounts = RegisteredUsers
    /\ inflight = [w \in Workers |-> Idle]

----------------------------------------------------------------------------
(* Permission classes (taskapp/permissions.py).  "safe" is                  *)
(* request.method in SAFE_METHODS.                                          *)

IsProjectCreator(actor, p, safe) ==
    IF safe THEN actor \in projects[p].members
    ELSE projects[p].creator = actor

IsAssignedToTask(actor, t, safe) ==
    IF safe THEN actor \in projects[tasks[t].project].members
    ELSE \/ projects[tasks[t].project].creator = actor
         \/ tasks[t].assigned_to = actor
         \/ tasks[t].created_by = actor

IsProjectMember(actor, p) == actor \in projects[p].members

----------------------------------------------------------------------------
(* Querysets and read endpoints (taskapp/views.py): what each returns to   *)
(* the actor.                                                               *)

(* ProjectViewSet.get_queryset: list, retrieve and every detail route.      *)
ProjectQueryset(actor) ==
    {p \in LiveProjects : actor \in projects[p].members}

(* TaskViewSet.get_queryset, before the optional request filters.           *)
TaskQueryset(actor) ==
    {t \in LiveTasks : \/ projects[tasks[t].project].creator = actor
                       \/ tasks[t].assigned_to = actor
                       \/ tasks[t].created_by = actor}

(* UserViewSet.tasks: GET /users/<target>/tasks/ by any authenticated actor *)
(* (UserViewSet.get_permissions asks for IsAuthenticated only and its      *)
(* queryset is User.objects.all()).                                         *)
UserTasks(actor, target) ==
    {t \in LiveTasks : tasks[t].assigned_to = target}

(* UserViewSet.projects: GET /users/<target>/projects/.                     *)
UserProjects(actor, target) ==
    {p \in LiveProjects : target \in projects[p].members}

(* ProjectViewSet.tasks: GET /projects/<p>/tasks/.                          *)
ProjectTasks(actor, p) ==
    IF p \in ProjectQueryset(actor) /\ actor \in projects[p].members
    THEN {t \in LiveTasks : tasks[t].project = p}
    ELSE {}

(* ProjectViewSet.statistics: GET /projects/<p>/statistics/.                *)
ProjectStatisticsVisible(actor, p) == p \in ProjectQueryset(actor)

(* StatisticsViewSet.get_queryset.                                          *)
StatisticsQueryset(actor) ==
    IF role(actor) = "PROFESSOR" THEN statistics
    ELSE {s \in statistics : s.user = actor}

(* Every task some read endpoint hands to the actor.                        *)
TasksReadableBy(actor) ==
    TaskQueryset(actor)
    \cup UNION {UserTasks(actor, u) : u \in Users}
    \cup UNION {ProjectTasks(actor, p) : p \in ProjectIds}

(* Every project some project endpoint hands to the actor: list, retrieve, *)
(* tasks and statistics go through get_queryset; /users/<u>/projects/.      *)
ProjectsReadableBy(actor) ==
    ProjectQueryset(actor)
    \cup {p \in ProjectIds : ProjectTasks(actor, p) # {}}
    \cup {p \in ProjectIds : ProjectStatisticsVisible(actor, p)}
    \cup UNION {UserProjects(actor, u) : u \in Users}

----------------------------------------------------------------------------
(* Signal handler (taskapp/models.py): the rows post_save of a Task adds.  *)

create_task_notifications_ToCreator(t, row, created) ==
    IF created
    THEN SetToBag({Notif(row.created_by, "TASK_ASSIGNED", t, row.project)})
    ELSE IF /\ row.status = "COMPLETED"
            /\ row.completion_date # NoDate
            /\ row.created_by # row.assigned_to
         THEN SetToBag({Notif(row.created_by, "TASK_COMPLETED", t, row.project)})
         ELSE EmptyBag

create_task_notifications(t, row, created) ==
    IF created
    THEN SetToBag({Notif(row.assigned_to, "TASK_ASSIGNED", t, row.project)})
    ELSE IF /\ row.status = "COMPLETED"
            /\ row.completion_date # NoDate
            /\ row.created_by # row.assigned_to
         THEN SetToBag({Notif(row.created_by, "TASK_COMPLETED", t, row.project)})
         ELSE EmptyBag

(* The model stops at MaxNotifications rows: a step that would leave more  *)
(* is not taken.                                                            *)
NotificationsFit == BagCardinality(notifications') <= MaxNotifications

SaveTask_NoSignal(t, row, created) ==
    /\ tasks' = [tasks EXCEPT ![t] = row]
    /\ notifications' = IF created THEN notifications (+) create_task_notifications(t, row, created)
                        ELSE notifications
    /\ NotificationsFit

(* Task.save(): the row is written and post_save runs.                      *)
SaveTask(t, row, created) ==
    /\ tasks' = [tasks EXCEPT ![t] = row]
    /\ notifications' = notifications (+) create_task_notifications(t, row, created)
    /\ NotificationsFit

(* A request that is refused writes nothing. *)
Refused == UNCHANGED <<projects, tasks, notifications, statistics, now, accounts, inflight>>

----------------------------------------------------------------------------
(* ProjectViewSet *)

(* POST /projects/: perform_create, first write: serializer.save(creator). *)
ProjectCreateSave(actor, title) ==
    /\ FreeProjectIds # {}
    /\ LET p == Min(FreeProjectIds) IN
         projects' = [projects EXCEPT ![p] =
             [st |-> "live", title |-> title, creator |-> actor, members |-> {}]]
    /\ response' = Answer("project_create", 0)
    /\ UNCHANGED <<tasks, notifications, statistics, now, accounts, inflight>>

(* perform_create, second write: project.members.add(request.user); the    *)
(* response is 201.  A created project lacks its creator as member exactly *)
(* between the two writes (remove_member never removes the creator).       *)
ProjectCreateAddMember(p) ==
    /\ p \in LiveProjects
    /\ projects[p].creator \notin projects[p].members
    /\ projects' = [projects EXCEPT ![p].members = @ \cup {projects[p].creator}]
    /\ response' = Answer("project_create", 201)
    /\ UNCHANGED <<tasks, notifications, statistics, now, accounts, inflight>>

(* PUT/PATCH /projects/<p>/: get_object() on get_queryset(), the viewset's *)
(* permission classes (IsAuthenticated), serializer.save().                 *)
ProjectUpdateStatus(actor, p) ==
    IF p \notin ProjectQueryset(actor) THEN 404 ELSE 200

ProjectUpdate(actor, p, title) ==
    /\ response' = Answer("project_update", ProjectUpdateStatus(actor, p))
    /\ IF ProjectUpdateStatus(actor, p) = 200
       THEN /\ projects' = [projects EXCEPT ![p].title = title]
            /\ UNCHANGED <<tasks, notifications, statistics, now, accounts, inflight>>
       ELSE Refused

(* on_delete=CASCADE: the project's tasks, and the notifications related   *)
(* to the project or to one of those tasks, go with it.                     *)
CascadeTasks(p) == {t \in LiveTasks : tasks[t].project = p}

(* DELETE /projects/<p>/.                                                   *)
ProjectDestroyStatus(actor, p) ==
    IF p \notin ProjectQueryset(actor) THEN 404 ELSE 204

ProjectDestroy(actor, p) ==
    /\ response' = Answer("project_destroy", ProjectDestroyStatus(actor, p))
    /\ IF ProjectDestroyStatus(actor, p) = 204
       THEN /\ projects' = [projects EXCEPT ![p] = GoneProject]
            /\ tasks' = [t \in TaskIds |->
                           IF t \in CascadeTasks(p) THEN GoneTask ELSE tasks[t]]
            /\ notifications' = BagFilter(notifications,
                   LAMBDA n : /\ n.related_project # p
                              /\ n.related_task \notin CascadeTasks(p))
            /\ UNCHANGED <<statistics, now, accounts, inflight>>
       ELSE Refused

AddMemberStatus_NoMemberCheck(actor, p, user_id) ==
    IF p \notin ProjectQueryset(actor) THEN 404
    ELSE IF ~IsProjectCreator(actor, p, FALSE) THEN 403
    ELSE IF user_id \notin Users THEN 404
    ELSE 200

(* POST /projects/<p>/add_member/ {user_id}.                                *)
AddMemberStatus(actor, p, user_id) ==
    IF p \notin ProjectQueryset(actor) THEN 404
    ELSE IF ~IsProjectCreator(actor, p, FALSE) THEN 403
    ELSE IF user_id \notin Users THEN 404
    ELSE IF user_id \in projects[p].members THEN 400
    ELSE 200

AddMember(actor, p, user_id) ==
    /\ response' = Answer("add_member", AddMemberStatus(actor, p, user_id))
    /\ IF AddMemberStatus(actor, p, user_id) = 200
       THEN /\ projects' = [projects EXCEPT ![p].members = @ \cup {user_id}]
            /\ notifications' = notifications (+)
                   SetToBag({Notif(user_id, "PROJECT_INVITATION", UnknownId, p)})
            /\ NotificationsFit
            /\ UNCHANGED <<tasks, statistics, now, accounts, inflight>>
       ELSE Refused

(* POST /projects/<p>/remove_member/ {user_id, reassign_tasks,              *)
(* new_assignee_id}.                                                        *)
RemoveMemberStatus_NoCreatorCheck(actor, p, user_id) ==
    IF p \notin ProjectQueryset(actor) THEN 404
    ELSE IF ~IsProjectCreator(actor, p, FALSE) THEN 403
    ELSE IF user_id \notin Users THEN 404
    ELSE 200

RemoveMemberStatus(actor, p, user_id) ==
    IF p \notin ProjectQueryset(actor) THEN 404
    ELSE IF ~IsProjectCreator(actor, p, FALSE) THEN 403
    ELSE IF user_id \notin Users THEN 404
    ELSE IF user_id = projects[p].creator THEN 400
    ELSE 200

(* Task.objects.filter(project, assigned_to=user).update(assigned_to=...): *)
(* QuerySet.update() writes the rows without save(), so post_save does not *)
(* run.                                                                     *)
BulkReassign(p, user_id, new_assignee_id) ==
    [t \in TaskIds |->
        IF tasks[t].st = "live" /\ tasks[t].project = p /\ tasks[t].assigned_to = user_id
        THEN [tasks[t] EXCEPT !.assigned_to = new_assignee_id]
        ELSE tasks[t]]

RemoveMember(actor, p, user_id, reassign_tasks, new_assignee_id) ==
    /\ response' = Answer("remove_member", RemoveMemberStatus(actor, p, user_id))
    /\ IF RemoveMemberStatus(actor, p, user_id) = 200
       THEN /\ tasks' = IF /\ reassign_tasks
                           /\ new_assignee_id \in Users
                           /\ new_assignee_id \in projects[p].members
                        THEN BulkReassign(p, user_id, new_assignee_id)
                        ELSE tasks
            /\ projects' = [projects EXCEPT ![p].members = @ \ {user_id}]
            /\ UNCHANGED <<notifications, statistics, now, accounts, inflight>>
       ELSE Refused

----------------------------------------------------------------------------
(* TaskSerializer (taskapp/serializers.py) *)

(* A string request field that is not sent. *)
Absent == "absent"

TaskCreateValid_NoMemberCheck(data) ==
    /\ data.project_id \in LiveProjects
    /\ data.assigned_to_id \in Users
    /\ data.status \in STATUS_CHOICES \cup {Absent}
    /\ data.due_date > now

(* Writable fields: project_id, assigned_to_id, status, due_date, priority *)
(* (title and description carry no rule); completion_date and created_by   *)
(* are read-only.  is_valid() on a POST: the related-field lookups, the     *)
(* status choices, validate_due_date and validate.                          *)
TaskCreateValid(data) ==
    /\ data.project_id \in LiveProjects
    /\ data.assigned_to_id \in Users
    /\ data.status \in STATUS_CHOICES \cup {Absent}
    /\ data.due_date > now
    /\ data.assigned_to_id \in projects[data.project_id].members

(* is_valid() on a PATCH (self.instance is set): validate_due_date and     *)
(* validate check nothing; the field lookups stay.                          *)
TaskUpdateValid(data) ==
    /\ data.project_id \in LiveProjects \cup {Omitted}
    /\ data.assigned_to_id \in Users \cup {Absent}
    /\ data.status \in STATUS_CHOICES \cup {Absent}

(* ModelSerializer.update: every field sent is set on the instance.         *)
TaskApplyUpdate(row, data) ==
    [row EXCEPT
       !.project = IF data.project_id = Omitted THEN @ ELSE data.project_id,
       !.assigned_to = IF data.assigned_to_id = Absent THEN @ ELSE data.assigned_to_id,
       !.status = IF data.status = Absent THEN @ ELSE data.status,
       !.due_date = IF data.due_date = Omitted THEN @ ELSE data.due_date,
       !.priority = IF data.priority = Omitted THEN @ ELSE data.priority]

----------------------------------------------------------------------------
(* TaskViewSet *)

TaskCreateStatus_NoSelfAssignCheck(actor, data) ==
    IF ~TaskCreateValid(data) THEN 400
    ELSE IF actor \notin projects[data.project_id].members THEN 403
    ELSE IF role(actor) = "STUDENT" /\ role(data.assigned_to_id) = "PROFESSOR" THEN 403
    ELSE 201

(* POST /tasks/: create() validates (400), then perform_create raises       *)
(* PermissionDenied (403) or saves with created_by = request.user.          *)
TaskCreateStatus(actor, data) ==
    IF ~TaskCreateValid(data) THEN 400
    ELSE IF actor \notin projects[data.project_id].members THEN 403
    ELSE IF projects[data.project_id].creator # actor /\ data.assigned_to_id # actor
    THEN 403
    ELSE IF role(actor) = "STUDENT" /\ role(data.assigned_to_id) = "PROFESSOR" THEN 403
    ELSE 201

NewTask(actor, data) ==
    [st |-> "live", project |-> data.project_id,
     assigned_to |-> data.assigned_to_id, created_by |-> actor,
     status |-> IF data.status = Absent THEN "TODO" ELSE data.status,
     due_date |-> data.due_date, completion_date |-> NoDate,
     priority |-> data.priority]

TaskCreate(actor, data) ==
    /\ response' = Answer("task_create", TaskCreateStatus(actor, data))
    /\ IF TaskCreateStatus(actor, data) = 201
       THEN /\ FreeTaskIds # {}
            /\ SaveTask(Min(FreeTaskIds), NewTask(actor, data), TRUE)
            /\ UNCHANGED <<projects, statistics, now, accounts, inflight>>
       ELSE Refused

(* PATCH /tasks/<t>/: get_object() on get_queryset(), the viewset's         *)
(* permission classes (IsAuthenticated), serializer.save().                 *)
TaskUpdateStatus(actor, t, data) ==
    IF t \notin TaskQueryset(actor) THEN 404
    ELSE IF ~TaskUpdateValid(data) THEN 400
    ELSE 200

TaskUpdate_SignalOnTransition(actor, t, data) ==
    /\ response' = Answer("task_update", TaskUpdateStatus(actor, t, data))
    /\ IF TaskUpdateStatus(actor, t, data) = 200
       THEN /\ tasks' = [tasks EXCEPT ![t] = TaskApplyUpdate(tasks[t], data)]
            /\ notifications' =
                  IF tasks[t].status # tasks'[t].status
                  THEN notifications (+) create_task_notifications(t, tasks'[t], FALSE)
                  ELSE notifications
            /\ NotificationsFit
            /\ UNCHANGED <<projects, statistics, now, accounts, inflight>>
       ELSE Refused

TaskUpdate(actor, t, data) ==
    /\ response' = Answer("task_update", TaskUpdateStatus(actor, t, data))
    /\ IF TaskUpdateStatus(actor, t, data) = 200
       THEN /\ SaveTask(t, TaskApplyUpdate(tasks[t], data), FALSE)
            /\ UNCHANGED <<projects, statistics, now, accounts, inflight>>
       ELSE Refused

(* DELETE /tasks/<t>/: the task's notifications cascade.                    *)
TaskDestroyStatus(actor, t) ==
    IF t \notin TaskQueryset(actor) THEN 404 ELSE 204

TaskDestroy(actor, t) ==
    /\ response' = Answer("task_destroy", TaskDestroyStatus(actor, t))
    /\ IF TaskDestroyStatus(actor, t) = 204
       THEN /\ tasks' = [tasks EXCEPT ![t] = GoneTask]
            /\ notifications' = BagFilter(notifications, LAMBDA n : n.related_task # t)
            /\ UNCHANGED <<projects, statistics, now, accounts, inflight>>
       ELSE Refused

(* PATCH /tasks/<t>/update_status/ {status}: get_object() with the action's *)
(* permission class IsAssignedToTask, then the status check.                *)
UpdateStatusStatus(actor, t, status_value) ==
    IF t \notin TaskQueryset(actor) THEN 404
    ELSE IF ~IsAssignedToTask(actor, t, FALSE) THEN 403
    ELSE IF status_value \notin STATUS_CHOICES THEN 400
    ELSE 200

StatusUpdated_AlwaysStamps(row, status_value) ==
    [row EXCEPT
       !.status = status_value,
       !.completion_date = IF status_value = "COMPLETED" THEN now ELSE NoDate]

StatusUpdated(row, status_value) ==
    [row EXCEPT
       !.status = status_value,
       !.completion_date =
           IF status_value = "COMPLETED" /\ row.status # "COMPLETED" THEN now
           ELSE IF status_value # "COMPLETED" THEN NoDate
           ELSE @]

UpdateStatus(actor, t, status_value) ==
    /\ response' = Answer("update_status", UpdateStatusStatus(actor, t, status_value))
    /\ IF UpdateStatusStatus(actor, t, status_value) = 200
       THEN /\ SaveTask(t, StatusUpdated(tasks[t], status_value), FALSE)
            /\ UNCHANGED <<projects, statistics, now, accounts, inflight>>
       ELSE Refused

ReassignStatus_NoMemberCheck(actor, t, new_assignee_id) ==
    IF t \notin TaskQueryset(actor) THEN 404
    ELSE IF projects[tasks[t].project].creator # actor /\ tasks[t].created_by # actor
    THEN 403
    ELSE IF new_assignee_id \notin Users THEN 404
    ELSE IF role(actor) = "STUDENT" /\ role(new_assignee_id) = "PROFESSOR" THEN 400
    ELSE 200

(* POST /tasks/<t>/reassign/ {assigned_to_id}: 403 is PermissionDenied, the *)
(* membership and the student-to-professor refusals are Response(400).      *)
ReassignStatus(actor, t, new_assignee_id) ==
    IF t \notin TaskQueryset(actor) THEN 404
    ELSE IF projects[tasks[t].project].creator # actor /\ tasks[t].created_by # actor
    THEN 403
    ELSE IF new_assignee_id \notin Users THEN 404
    ELSE IF new_assignee_id \notin projects[tasks[t].project].members THEN 400
    ELSE IF role(actor) = "STUDENT" /\ role(new_assignee_id) = "PROFESSOR" THEN 400
    ELSE 200

Reassign(actor, t, new_assignee_id) ==
    /\ response' = Answer("reassign", ReassignStatus(actor, t, new_assignee_id))
    /\ IF ReassignStatus(actor, t, new_assignee_id) = 200
       THEN LET row == [tasks[t] EXCEPT !.assigned_to = new_assignee_id] IN
            /\ tasks' = [tasks EXCEPT ![t] = row]
            /\ notifications' = notifications
                   (+) create_task_notifications(t, row, FALSE)
                   (+) SetToBag({Notif(new_assignee_id, "TASK_ASSIGNED", t, row.project)})
            /\ NotificationsFit
            /\ UNCHANGED <<projects, statistics, now, accounts, inflight>>
       ELSE Refused

(* Task.mark_completed(): a model method, run on a loaded task without a   *)
(* request (no view calls it).                                              *)
mark_completed(t) ==
    /\ t \in LiveTasks
    /\ SaveTask(t, [tasks[t] EXCEPT !.status = "COMPLETED", !.completion_date = now], FALSE)
    /\ response' = Answer("mark_completed", 0)
    /\ UNCHANGED <<projects, statistics, now, accounts, inflight>>

(* The clock. *)
Tick ==
    /\ now < MaxTime
    /\ now' = now + 1
    /\ response' = Answer("tick", 0)
    /\ UNCHANGED <<projects, tasks, notifications, statistics, accounts, inflight>>

----------------------------------------------------------------------------
(* NotificationViewSet *)

NotificationQueryset_All(actor) == notifications

(* get_queryset: Notification.objects.filter(user=request.user); list,     *)
(* retrieve and mark_as_read go through it.                                 *)
NotificationQueryset(actor) ==
    BagFilter(notifications, LAMBDA n : n.user = actor)

(* GET /notifications/unread/.                                              *)
UnreadNotifications(actor) ==
    BagFilter(notifications, LAMBDA n : n.user = actor /\ ~n.read)

(* A primary key no Notification row has. *)
NoNotification == Notif(NoUser, "", UnknownId, UnknownId)

(* PATCH /notifications/<n>/mark_as_read/: get_object() on get_queryset(),  *)
(* then Notification.mark_as_read().                                        *)
MarkAsReadStatus(actor, n) ==
    IF ~BagIn(n, NotificationQueryset(actor)) THEN 404 ELSE 200

MarkAsRead(actor, n) ==
    /\ response' = Answer("mark_as_read", MarkAsReadStatus(actor, n))
    /\ IF MarkAsReadStatus(actor, n) = 200
       THEN /\ notifications' = (notifications (-) SetToBag({n}))
                                   (+) SetToBag({[n EXCEPT !.read = TRUE]})
            /\ UNCHANGED <<projects, tasks, statistics, now, accounts, inflight>>
       ELSE Refused

(* PATCH /notifications/mark_all_as_read/:                                  *)
(* filter(user=request.user, read=False).update(read=True).                 *)
MarkAllAsRead(actor) ==
    /\ response' = Answer("mark_all_as_read", 200)
    /\ notifications' =
          BagFilter(notifications, LAMBDA n : ~(n.user = actor /\ ~n.read))
          (+) BagOfAll(LAMBDA n : [n EXCEPT !.read = TRUE], UnreadNotifications(actor))
    /\ UNCHANGED <<projects, tasks, statistics, now, accounts, inflight>>

----------------------------------------------------------------------------
(* Statistics (TaskStatistics.generate_statistics, taskapp/models.py)       *)

(* timezone.now().date(), and the datetime a date stands for in a filter on *)
(* a DateTimeField (its midnight).                                          *)
Today == now \div TicksPerDay
Midnight(date) == date * TicksPerDay

(* The rates are floats in the code; the model keeps them in hundredths of *)
(* a percent.                                                               *)
Rate(part, total) == IF total > 0 THEN (part * 10000) \div total ELSE 0

BonusAmount_Above90(user, completed_on_time, total_tasks, old_bonus) ==
    IF role(user) = "PROFESSOR"
    THEN IF total_tasks > 0 /\ completed_on_time = total_tasks THEN 100000
         ELSE IF total_tasks > 0 /\ completed_on_time * 100 > 90 * total_tasks THEN 30000
         ELSE 0
    ELSE old_bonus

(* on_time_rate == 100, on_time_rate >= 90; a user who is not a PROFESSOR   *)
(* keeps the bonus_amount the row has (0 on a row get_or_create just made). *)
BonusAmount(user, completed_on_time, total_tasks, old_bonus) ==
    IF role(user) = "PROFESSOR"
    THEN IF total_tasks > 0 /\ completed_on_time = total_tasks THEN 100000
         ELSE IF total_tasks > 0 /\ completed_on_time * 100 >= 90 * total_tasks THEN 30000
         ELSE 0
    ELSE old_bonus

StatsKey(s) == <<s.user, s.period_start, s.period_end>>

(* The fields generate_statistics sets from the three counts. *)
StatisticsRow(user, start_date, end_date, total, completed, on_time, old_bonus) ==
    [user |-> user, period_start |-> start_date, period_end |-> end_date,
     total_tasks |-> total,
     completed_tasks |-> completed,
     completed_on_time |-> on_time,
     completion_rate |-> Rate(completed, total),
     on_time_rate |-> Rate(on_time, total),
     bonus_amount |-> BonusAmount(user, on_time, total, old_bonus)]

(* The tasks of the period: assigned_to=user, due_date__range=[start, end]. *)
AssignedTasks(user, start_date, end_date) ==
    {t \in LiveTasks : /\ tasks[t].assigned_to = user
                       /\ tasks[t].due_date >= Midnight(start_date)
                       /\ tasks[t].due_date <= Midnight(end_date)}

(* bonus_amount of the row get_or_create returns: the stored one, or the    *)
(* field's default 0.                                                       *)
StoredBonus(user, start_date, end_date) ==
    LET old == {s \in statistics : StatsKey(s) = <<user, start_date, end_date>>}
    IN IF old = {} THEN 0 ELSE (CHOOSE s \in old : TRUE).bonus_amount

GeneratedStatistics_Additive(user, start_date, end_date) ==
    LET assigned == AssignedTasks(user, start_date, end_date)
        completed == {t \in assigned : tasks[t].status = "COMPLETED"}
        on_time == {t \in completed : /\ tasks[t].completion_date # NoDate
                                       /\ tasks[t].completion_date <= tasks[t].due_date}
        old == {s \in statistics : StatsKey(s) = <<user, start_date, end_date>>}
        kept == IF old = {} THEN 0 ELSE (CHOOSE s \in old : TRUE).total_tasks
    IN StatisticsRow(user, start_date, end_date,
                     kept + Cardinality(assigned), Cardinality(completed),
                     Cardinality(on_time), StoredBonus(user, start_date, end_date))

(* The row generate_statistics saves and returns. *)
GeneratedStatistics(user, start_date, end_date) ==
    LET assigned == AssignedTasks(user, start_date, end_date)
        completed == {t \in assigned : tasks[t].status = "COMPLETED"}
        on_time == {t \in completed : /\ tasks[t].completion_date # NoDate
                                       /\ tasks[t].completion_date <= tasks[t].due_date}
    IN StatisticsRow(user, start_date, end_date,
                     Cardinality(assigned), Cardinality(completed),
                     Cardinality(on_time), StoredBonus(user, start_date, end_date))

generate_statistics_AlwaysCreate(users, start_date, end_date) ==
    statistics \cup {GeneratedStatistics(u, start_date, end_date) : u \in users}

(* get_or_create, the counts, save: the table after the call for each user *)
(* of the set.                                                              *)
generate_statistics(users, start_date, end_date) ==
    {s \in statistics : ~(s.user \in users /\ s.period_start = start_date
                                           /\ s.period_end = end_date)}
    \cup {GeneratedStatistics(u, start_date, end_date) : u \in users}

(* The period parameter: 'trimester', 'year', 'month' and 'week' give the   *)
(* first day of the current trimester, year, month or week.  The model's   *)
(* clock has no calendar: day 0 may be any day of the year, so the first    *)
(* day of the period is some day from 0 to today.                           *)
Periods == {"trimester", "year", "month", "week"}
PeriodStartDates(period) == IF period \in Periods THEN 0..Today ELSE {}

(* The model stops at MaxStatistics rows: a step that would leave more is   *)
(* not taken.                                                               *)
StatisticsFit == Cardinality(statistics') <= MaxStatistics

(* GET /users/<target>/statistics/?period= by any authenticated actor.      *)
UserStatisticsStatus(actor, target, period) ==
    IF target \notin Users THEN 404
    ELSE IF period \notin Periods THEN 400
    ELSE 200

UserStatistics(actor, target, period) ==
    /\ response' = Answer("user_statistics", UserStatisticsStatus(actor, target, period))
    /\ IF UserStatisticsStatus(actor, target, period) = 200
       THEN /\ \E start_date \in PeriodStartDates(period) :
                  statistics' = generate_statistics({target}, start_date, Today)
            /\ StatisticsFit
            /\ UNCHANGED <<projects, tasks, notifications, now, accounts, inflight>>
       ELSE Refused

(* GET /statistics/summary/?period=.                                        *)
StatisticsSummaryStatus(actor, period) ==
    IF role(actor) # "PROFESSOR" THEN 403
    ELSE IF period \notin Periods THEN 400
    ELSE 200

StatisticsSummary(actor, period) ==
    /\ response' = Answer("statistics_summary", StatisticsSummaryStatus(actor, period))
    /\ IF StatisticsSummaryStatus(actor, period) = 200
       THEN /\ \E start_date \in PeriodStartDates(period) :
                  statistics' = generate_statistics(
                      {u \in Users : role(u) = "PROFESSOR"}, start_date, Today)
            /\ StatisticsFit
            /\ UNCHANGED <<projects, tasks, notifications, now, accounts, inflight>>
       ELSE Refused

----------------------------------------------------------------------------
(* Specification of the authorization rules and the task lifecycle: the    *)
(* project and task handlers, with the clock standing still.                *)

RemoveMemberInputs ==
    {<<FALSE, Absent>>} \cup ({TRUE} \X ({Absent} \cup UserIdInputs))

TaskCreateInputs ==
    [project_id : ProjectIds, assigned_to_id : UserIdInputs,
     status : {Absent, "COMPLETED"}, due_date : {0, 1}, priority : {0}]

(* PATCH bodies that send one field (or none). *)
NoFields ==
    [project_id |-> Omitted, assigned_to_id |-> Absent, status |-> Absent,
     due_date |-> Omitted, priority |-> Omitted]

TaskUpdateInputs ==
    {NoFields}
    \cup {[NoFields EXCEPT !.project_id = p] : p \in ProjectIds}
    \cup {[NoFields EXCEPT !.assigned_to_id = u] : u \in UserIdInputs}
    \cup {[NoFields EXCEPT !.status = sv] : sv \in STATUS_CHOICES \cup {"DONE"}}

Next ==
    \/ \E actor \in Users : ProjectCreateSave(actor, "a")
    \/ \E p \in ProjectIds : ProjectCreateAddMember(p)
    \/ \E actor \in Users, p \in ProjectIds, title \in Titles :
          ProjectUpdate(actor, p, title)
    \/ \E actor \in Users, p \in ProjectIds : ProjectDestroy(actor, p)
    \/ \E actor \in Users, p \in ProjectIds, u \in UserIdInputs : AddMember(actor, p, u)
    \/ \E actor \in Users, p \in ProjectIds, u \in UserIdInputs, x \in RemoveMemberInputs :
          RemoveMember(actor, p, u, x[1], x[2])
    \/ \E actor \in Users, data \in TaskCreateInputs : TaskCreate(actor, data)
    \/ \E actor \in Users, t \in TaskIds, data \in TaskUpdateInputs :
          TaskUpdate(actor, t, data)
    \/ \E actor \in Users, t \in TaskIds : TaskDestroy(actor, t)
    \/ \E actor \in Users, t \in TaskIds, sv \in STATUS_CHOICES \cup {"DONE"} :
          UpdateStatus(actor, t, sv)
    \/ \E actor \in Users, t \in TaskIds, u \in UserIdInputs : Reassign(actor, t, u)
    \/ \E t \in TaskIds : mark_completed(t)

Spec == Init /\ [][Next]_vars

----------------------------------------------------------------------------
(* Specification of statistics: tasks are created, completed and reopened  *)
(* by their project's creator while the clock runs, and statistics are     *)
(* requested.                                                               *)

StatsTaskInputs ==
    [project_id : ProjectIds, assigned_to_id : Users,
     status : {Absent}, due_date : 1..MaxTime, priority : {0}]

NextStats ==
    \/ \E actor \in Users : ProjectCreateSave(actor, "a")
    \/ \E p \in ProjectIds : ProjectCreateAddMember(p)
    \/ \E actor \in Users, data \in StatsTaskInputs : TaskCreate(actor, data)
    \/ \E actor \in Users, t \in TaskIds, sv \in {"TODO", "COMPLETED"} :
          UpdateStatus(actor, t, sv)
    \/ \E actor \in Users, target \in UserIdInputs, period \in {"trimester", "week", "day"} :
          UserStatistics(actor, target, period)
    \/ \E actor \in Users, period \in {"trimester", "day"} : StatisticsSummary(actor, period)
    \/ Tick

SpecStats == Init /\ [][NextStats]_vars

----------------------------------------------------------------------------
(* Specification of the derived fields of a statistics record: the rates    *)
(* and the bonus generate_statistics computes, for every user and every     *)
(* outcome of its three counts up to MaxCount tasks.  The table holds the   *)
(* record produced.                                                         *)

DeriveStatistics(user, total, completed, on_time) ==
    /\ statistics' = {StatisticsRow(user, Today, Today, total, completed, on_time,
                                    StoredBonus(user, Today, Today))}
    /\ response' = Answer("generate_statistics", 0)
    /\ UNCHANGED <<projects, tasks, notifications, now, accounts, inflight>>

NextBonus ==
    \E user \in Users, total \in 0..MaxCount :
       \E completed \in 0..total :
          \E on_time \in 0..completed :
             DeriveStatistics(user, total, completed, on_time)

SpecBonus == Init /\ [][NextBonus]_vars

----------------------------------------------------------------------------
(* Specification of the notification endpoints: projects, members and tasks *)
(* produce notifications, and users mark them read.                         *)

NotifTaskInputs ==
    [project_id : ProjectIds, assigned_to_id : Users,
     status : {Absent}, due_date : {1}, priority : {0}]

(* The rows a primary key of the request can name, in the table or not. *)
NotificationInputs ==
    [user : Users, type : TYPE_CHOICES, related_task : TaskIds \cup {UnknownId},
     related_project : ProjectIds, created_at : {0}, read : BOOLEAN]
    \cup {NoNotification}

NextNotif ==
    \/ \E actor \in Users : ProjectCreateSave(actor, "a")
    \/ \E p \in ProjectIds : ProjectCreateAddMember(p)
    \/ \E actor \in Users, p \in ProjectIds, u \in Users : AddMember(actor, p, u)
    \/ \E actor \in Users, data \in NotifTaskInputs : TaskCreate(actor, data)
    \/ \E actor \in Users, t \in TaskIds : UpdateStatus(actor, t, "COMPLETED")
    \/ \E actor \in Users, n \in NotificationInputs : MarkAsRead(actor, n)
    \/ \E actor \in Users : MarkAllAsRead(actor)

SpecNotif == Init /\ [][NextNotif]_vars

----------------------------------------------------------------------------
(* UserViewSet: profile updates *)

(* PATCH /users/<target>/ {first_name, role}: get_object() on               *)
(* User.objects.all() under IsAuthenticated; update and partial_update use  *)
(* UserProfileSerializer.                                                   *)
ProfileUpdateStatus(actor, target, data) ==
    IF target \notin Users THEN 404 ELSE 200

ProfileUpdated_SetsRole(row, data) ==
    [row EXCEPT !.first_name = IF data.first_name = Absent THEN @ ELSE data.first_name,
                !.role = IF data.role = Absent THEN @ ELSE data.role]

(* UserProfileSerializer: "role" is not one of Meta.fields, so a role that  *)
(* is sent never reaches validated_data (and update() would pop it); the    *)
(* fields that are sent and declared are set on the instance.               *)
ProfileUpdated(row, data) ==
    [row EXCEPT !.first_name = IF data.first_name = Absent THEN @ ELSE data.first_name]

ProfileUpdate(actor, target, data) ==
    /\ response' = Answer("profile_update", ProfileUpdateStatus(actor, target, data))
    /\ IF ProfileUpdateStatus(actor, target, data) = 200
       THEN /\ accounts' = [accounts EXCEPT ![target] = ProfileUpdated(@, data)]
            /\ UNCHANGED <<projects, tasks, notifications, statistics, now, inflight>>
       ELSE Refused

(* Specification of profiles: users update profiles (their own or another  *)
(* user's) with bodies that carry a first name, a role, both or neither,    *)
(* while projects and tasks are created under the role rules.               *)
ProfileInputs ==
    [first_name : {Absent, "a", "b"}, role : {Absent} \cup ROLE_CHOICES]

NextProfile ==
    \/ \E actor \in Users : ProjectCreateSave(actor, "a")
    \/ \E p \in ProjectIds : ProjectCreateAddMember(p)
    \/ \E actor \in Users, p \in ProjectIds, u \in Users : AddMember(actor, p, u)
    \/ \E actor \in Users, data \in NotifTaskInputs : TaskCreate(actor, data)
    \/ \E actor \in Users, target \in UserIdInputs, data \in ProfileInputs :
          ProfileUpdate(actor, target, data)

SpecProfile == Init /\ [][NextProfile]_vars

----------------------------------------------------------------------------
(* Specification of the task lifecycle: tasks are created, reassigned (by  *)
(* PATCH and by the reassign route), moved between statuses and marked     *)
(* completed while the clock runs.                                          *)

LifeTaskInputs ==
    [project_id : ProjectIds, assigned_to_id : Users,
     status : {Absent}, due_date : {MaxTime + 1}, priority : {0}]

LifeUpdateInputs == {[NoFields EXCEPT !.assigned_to_id = u] : u \in Users}

NextLife ==
    \/ \E actor \in Users : ProjectCreateSave(actor, "a")
    \/ \E p \in ProjectIds : ProjectCreateAddMember(p)
    \/ \E actor \in Users, data \in LifeTaskInputs : TaskCreate(actor, data)
    \/ \E actor \in Users, t \in TaskIds, data \in LifeUpdateInputs :
          TaskUpdate(actor, t, data)
    \/ \E actor \in Users, t \in TaskIds, sv \in STATUS_CHOICES \cup {"DONE"} :
          UpdateStatus(actor, t, sv)
    \/ \E actor \in Users, t \in TaskIds, u \in Users : Reassign(actor, t, u)
    \/ \E t \in TaskIds : mark_completed(t)
    \/ Tick

SpecLife == Init /\ [][NextLife]_vars

----------------------------------------------------------------------------
(* TaskViewSet.list: the ordering of get_queryset *)

(* request.query_params.get(name, default) *)
QueryParam(value, default) == IF value = Absent THEN default ELSE value

SortFields == {"title", "due_date", "created_at", "priority"}

(* The column a task is ordered by (the rows of the model carry due_date   *)
(* and priority; title and created_at are not drawn as sort_by).            *)
SortColumn(row, field) ==
    CASE field = "due_date" -> row.due_date
      [] field = "priority" -> row.priority

(* Row a must come before row b under the order_by() that get_queryset     *)
(* applies: the one column, descending or ascending, when sort_by is on    *)
(* the list, and ('due_date', '-priority') otherwise.                       *)
Precedes(a, b, sort_by, sort_direction) ==
    IF sort_by \in SortFields
    THEN IF sort_direction = "desc"
         THEN SortColumn(a, sort_by) > SortColumn(b, sort_by)
         ELSE SortColumn(a, sort_by) < SortColumn(b, sort_by)
    ELSE \/ a.due_date < b.due_date
         \/ a.due_date = b.due_date /\ a.priority > b.priority

(* Every sequence the database may return for the ordered queryset: rows   *)
(* that order_by() does not tell apart come in any order.                   *)
TaskListResults(actor, sort_by_param, sort_direction_param) ==
    LET sort_by == QueryParam(sort_by_param, "due_date")
        sort_direction == QueryParam(sort_direction_param, "asc")
        S == TaskQueryset(actor)
    IN  {seq \in [1..Cardinality(S) -> S] :
            /\ \A i, j \in 1..Cardinality(S) : i # j => seq[i] # seq[j]
            /\ \A i, j \in 1..Cardinality(S) :
                  i < j => ~Precedes(tasks[seq[j]], tasks[seq[i]], sort_by, sort_direction)}

(* GET /tasks/?sort_by=&sort_direction= : the listed tasks, in order.       *)
TaskList(actor, sort_by_param, sort_direction_param) ==
    /\ \E seq \in TaskListResults(actor, sort_by_param, sort_direction_param) :
          response' = [op |-> "task_list", status |-> 200, results |-> seq]
    /\ Refused

(* Specification of listing: a project of prof1 holds MaxListed tasks that *)
(* prof1 created for themself, with any due dates and priorities, and      *)
(* users list tasks.                                                        *)
ListedIds == 1..MaxListed

ListedRows ==
    [st : {"live"}, project : {1}, assigned_to : {"prof1"}, created_by : {"prof1"},
     status : {"TODO"}, due_date : {1, 2}, completion_date : {NoDate}, priority : {0, 1}]

InitList ==
    /\ projects = [p \in ProjectIds |->
                     IF p = 1 THEN [st |-> "live", title |-> "a", creator |-> "prof1",
                                    members |-> {"prof1"}]
                     ELSE FreeProject]
    /\ tasks \in [ListedIds -> ListedRows]
    /\ now = 0
    /\ notifications = SetToBag({Notif("prof1", "TASK_ASSIGNED", t, 1) : t \in ListedIds})
    /\ statistics = {}
    /\ response = Answer("task_create", 201)
    /\ accounts = RegisteredUsers
    /\ inflight = [w \in Workers |-> Idle]

SortInputs == {Absent, "due_date", "priority", "rank"}

NextList ==
    \E actor \in Users, sort_by \in SortInputs, sort_direction \in {Absent, "asc", "desc"} :
        TaskList(actor, sort_by, sort_direction)

SpecList == InitList /\ [][NextList]_vars

----------------------------------------------------------------------------
(* Scheduled jobs (taskapp/cron.py) *)

OverdueTasks_AnyStatus ==
    {t \in LiveTasks : /\ now - TicksPerDay <= tasks[t].due_date
                       /\ tasks[t].due_date <= now}

(* Task.objects.filter(status__in=['TODO', 'IN_PROGRESS'],                  *)
(* due_date__range=[now - timedelta(days=1), now]): both ends included.     *)
OverdueTasks ==
    {t \in LiveTasks : /\ tasks[t].status \in {"TODO", "IN_PROGRESS"}
                       /\ now - TicksPerDay <= tasks[t].due_date
                       /\ tasks[t].due_date <= now}

(* The body of the loop: one row for the assignee, one for created_by if   *)
(* different.                                                               *)
OverdueNotifications(t) ==
    SetToBag({Notif(tasks[t].assigned_to, "TASK_OVERDUE", t, tasks[t].project)})
    (+) (IF tasks[t].created_by # tasks[t].assigned_to
         THEN SetToBag({Notif(tasks[t].created_by, "TASK_OVERDUE", t, tasks[t].project)})
         ELSE EmptyBag)

RECURSIVE OverdueRows(_)
OverdueRows(S) ==
    IF S = {} THEN EmptyBag
    ELSE LET t == Min(S) IN OverdueNotifications(t) (+) OverdueRows(S \ {t})

(* create_overdue_notifications(): nothing looks for the rows of an earlier *)
(* run.  The model stops at MaxScanned rows.                                *)
create_overdue_notifications ==
    /\ notifications' = notifications (+) OverdueRows(OverdueTasks)
    /\ BagCardinality(notifications') <= MaxScanned
    /\ response' = Answer("create_overdue_notifications", 0)
    /\ UNCHANGED <<projects, tasks, statistics, now, accounts, inflight>>

(* timedelta(days=30), in ticks *)
RetentionDays == 30
RetentionTicks == RetentionDays * TicksPerDay

OldNotification_NotAfter(n) == n.read /\ n.created_at <= now - RetentionTicks

(* filter(read=True, created_at__lt=now - timedelta(days=30)) *)
OldNotification(n) == n.read /\ n.created_at < now - RetentionTicks

(* clean_old_notifications() *)
clean_old_notifications ==
    /\ notifications' = BagFilter(notifications, LAMBDA n : ~OldNotification(n))
    /\ response' = Answer("clean_old_notifications", 0)
    /\ UNCHANGED <<projects, tasks, statistics, now, accounts, inflight>>

(* Specification of the overdue scan.  At time 0 prof1 created a project   *)
(* and a task in it for themself; since then the clock has run and a PATCH  *)
(* may have given the task to stud1.  The status changes and the scan runs. *)
ScanRows ==
    [st : {"live"}, project : {1}, assigned_to : {"prof1", "stud1"}, created_by : {"prof1"},
     status : {"TODO"}, due_date : 1..MaxScanTime, completion_date : {NoDate},
     priority : {0}]

InitScan ==
    /\ projects = [p \in ProjectIds |->
                     IF p = 1 THEN [st |-> "live", title |-> "a", creator |-> "prof1",
                                    members |-> {"prof1"}]
                     ELSE FreeProject]
    /\ tasks \in [TaskIds -> ScanRows]
    /\ now \in 1..MaxScanTime
    /\ notifications =
          SetToBag({[Notif("prof1", "TASK_ASSIGNED", t, 1) EXCEPT !.created_at = 0] :
                       t \in TaskIds})
    /\ statistics = {}
    /\ response = Answer("tick", 0)
    /\ accounts = RegisteredUsers
    /\ inflight = [w \in Workers |-> Idle]

NextScan ==
    \/ \E actor \in Users, t \in TaskIds, sv \in STATUS_CHOICES : UpdateStatus(actor, t, sv)
    \/ create_overdue_notifications

SpecScan == InitScan /\ [][NextScan]_vars

(* Specification of the retention sweep.  A month ago, at times 0..MaxTime, *)
(* prof1 invited stud1 to a project (and removed and invited again); stud1  *)
(* has read some of the invitations.  Notifications are marked read and the *)
(* sweep runs.                                                              *)
InvitationRows ==
    [user : {"stud1"}, type : {"PROJECT_INVITATION"}, related_task : {UnknownId},
     related_project : {1}, created_at : 0..MaxTime, read : BOOLEAN]

InitRetention ==
    /\ projects = [p \in ProjectIds |->
                     IF p = 1 THEN [st |-> "live", title |-> "a", creator |-> "prof1",
                                    members |-> {"prof1", "stud1"}]
                     ELSE FreeProject]
    /\ tasks = [t \in TaskIds |-> FreeTask]
    /\ now \in RetentionTicks .. RetentionTicks + MaxTime
    /\ \E S \in SUBSET InvitationRows : notifications = SetToBag(S)
    /\ statistics = {}
    /\ response = Answer("tick", 0)
    /\ accounts = RegisteredUsers
    /\ inflight = [w \in Workers |-> Idle]

NextRetention ==
    \/ \E actor \in Users, n \in InvitationRows : MarkAsRead(actor, n)
    \/ \E actor \in Users : MarkAllAsRead(actor)
    \/ clean_old_notifications

SpecRetention == InitRetention /\ [][NextRetention]_vars

----------------------------------------------------------------------------
(* The handlers write by write.  Every ORM write commits on its own        *)
(* (autocommit; neither views.py nor models.py opens a transaction), so     *)
(* between the write of the mutation and the Notification.objects.create()  *)
(* calls that follow it the call is in progress: the other workers see the  *)
(* mutation, and a create() that raises ends the call with the mutation     *)
(* kept.                                                                    *)

(* The call of worker w goes on with the notifications it has to create,   *)
(* in order; with none it answers at once.                                  *)
Started(w, op, status, rows) ==
    IF rows = << >>
    THEN /\ response' = Answer(op, status)
         /\ UNCHANGED inflight
    ELSE /\ response' = Answer(op, 0)
         /\ inflight' = [inflight EXCEPT ![w] =
                            [pc |-> "notify", op |-> op, status |-> status,
                             pending |-> rows]]

(* The rows post_save creates, as the sequence of create() calls. *)
SignalRows(t, row, created) ==
    LET B == create_task_notifications(t, row, created) IN
    IF B = EmptyBag THEN << >> ELSE <<CHOOSE n \in BagToSet(B) : TRUE>>

(* add_member up to project.members.add(user) *)
AddMemberWrite(w, actor, p, user_id) ==
    /\ inflight[w] = Idle
    /\ IF AddMemberStatus(actor, p, user_id) = 200
       THEN /\ projects' = [projects EXCEPT ![p].members = @ \cup {user_id}]
            /\ Started(w, "add_member", 200,
                       <<Notif(user_id, "PROJECT_INVITATION", UnknownId, p)>>)
            /\ UNCHANGED <<tasks, notifications, statistics, now, accounts>>
       ELSE /\ response' = Answer("add_member", AddMemberStatus(actor, p, user_id))
            /\ Refused

(* POST /tasks/ up to the INSERT of Task.save() *)
TaskCreateWrite(w, actor, data) ==
    /\ inflight[w] = Idle
    /\ IF TaskCreateStatus(actor, data) = 201
       THEN /\ FreeTaskIds # {}
            /\ LET t == Min(FreeTaskIds) IN
               /\ tasks' = [tasks EXCEPT ![t] = NewTask(actor, data)]
               /\ Started(w, "task_create", 201, SignalRows(t, NewTask(actor, data), TRUE))
            /\ UNCHANGED <<projects, notifications, statistics, now, accounts>>
       ELSE /\ response' = Answer("task_create", TaskCreateStatus(actor, data))
            /\ Refused

(* update_status up to the UPDATE of task.save() *)
UpdateStatusWrite(w, actor, t, status_value) ==
    /\ inflight[w] = Idle
    /\ IF UpdateStatusStatus(actor, t, status_value) = 200
       THEN /\ tasks' = [tasks EXCEPT ![t] = StatusUpdated(tasks[t], status_value)]
            /\ Started(w, "update_status", 200,
                       SignalRows(t, StatusUpdated(tasks[t], status_value), FALSE))
            /\ UNCHANGED <<projects, notifications, statistics, now, accounts>>
       ELSE /\ response' = Answer("update_status", UpdateStatusStatus(actor, t, status_value))
            /\ Refused

(* reassign up to the UPDATE of task.save(): post_save's row, then the     *)
(* TASK_ASSIGNED row of the view, are still to be created.                  *)
ReassignWrite(w, actor, t, new_assignee_id) ==
    /\ inflight[w] = Idle
    /\ IF ReassignStatus(actor, t, new_assignee_id) = 200
       THEN LET row == [tasks[t] EXCEPT !.assigned_to = new_assignee_id] IN
            /\ tasks' = [tasks EXCEPT ![t] = row]
            /\ Started(w, "reassign", 200,
                       SignalRows(t, row, FALSE)
                       \o <<Notif(new_assignee_id, "TASK_ASSIGNED", t, row.project)>>)
            /\ UNCHANGED <<projects, notifications, statistics, now, accounts>>
       ELSE /\ response' = Answer("reassign", ReassignStatus(actor, t, new_assignee_id))
            /\ Refused

(* The next Notification.objects.create() of the call; after the last one  *)
(* the call answers.                                                        *)
WriteNotification(w) ==
    /\ inflight[w] # Idle
    /\ inflight[w].pc = "notify"
    /\ notifications' = notifications (+) SetToBag({Head(inflight[w].pending)})
    /\ NotificationsFit
    /\ IF Tail(inflight[w].pending) = << >>
       THEN /\ inflight' = [inflight EXCEPT ![w] = Idle]
            /\ response' = Answer(inflight[w].op, inflight[w].status)
       ELSE /\ inflight' = [inflight EXCEPT ![w].pending = Tail(@)]
            /\ response' = Answer(inflight[w].op, 0)
    /\ UNCHANGED <<projects, tasks, statistics, now, accounts>>

(* The next create() raises (the database refuses or is gone) or the       *)
(* worker dies: the call ends with a server error and what it has written   *)
(* stays.                                                                   *)
CallFails(w) ==
    /\ inflight[w] # Idle
    /\ inflight[w].pc = "notify"
    /\ inflight' = [inflight EXCEPT ![w] = Idle]
    /\ response' = Answer(inflight[w].op, 500)
    /\ UNCHANGED <<projects, tasks, notifications, statistics, now, accounts>>

(* Specification of the writes: two workers serve add_member, task         *)
(* creation, update_status and reassign write by write.                     *)
NextWrites ==
    \/ \E actor \in Users : ProjectCreateSave(actor, "a")
    \/ \E p \in ProjectIds : ProjectCreateAddMember(p)
    \/ \E w \in Workers, actor \in Users, p \in ProjectIds, u \in Users :
          AddMemberWrite(w, actor, p, u)
    \/ \E w \in Workers, actor \in Users, data \in NotifTaskInputs :
          TaskCreateWrite(w, actor, data)
    \/ \E w \in Workers, actor \in Users, t \in TaskIds, sv \in {"TODO", "COMPLETED"} :
          UpdateStatusWrite(w, actor, t, sv)
    \/ \E w \in Workers, actor \in Users, t \in TaskIds, u \in Users :
          ReassignWrite(w, actor, t, u)
    \/ \E w \in Workers : WriteNotification(w)
    \/ \E w \in Workers : CallFails(w)

SpecWrites == Init /\ [][NextWrites]_vars

----------------------------------------------------------------------------
(* TaskStatistics.generate_statistics, query by query: concurrent calls    *)
(* (the statistics views, the monthly job, the management command) run it   *)
(* for the same user and period.                                            *)

StatisticsOfKey(user, start_date, end_date) ==
    {s \in statistics : StatsKey(s) = <<user, start_date, end_date>>}

(* The row objects.create() inserts: the fields' defaults. *)
DefaultStatistics(user, start_date, end_date) ==
    [user |-> user, period_start |-> start_date, period_end |-> end_date,
     total_tasks |-> 0, completed_tasks |-> 0, completed_on_time |-> 0,
     completion_rate |-> 0, on_time_rate |-> 0, bonus_amount |-> 0]

CallsInProgress == {w \in Workers : inflight[w] # Idle}

(* get_or_create, first query: self.get() on the key.                         *)
GetStatistics(w, user, start_date, end_date) ==
    /\ inflight[w] = Idle
    /\ LET old == StatisticsOfKey(user, start_date, end_date) IN
       inflight' = [inflight EXCEPT ![w] =
          [pc |-> IF old = {} THEN "create" ELSE "count",
           user |-> user, period_start |-> start_date, period_end |-> end_date,
           created |-> FALSE, integrity_error |-> FALSE,
           bonus_amount |-> IF old = {} THEN 0 ELSE (CHOOSE s \in old : TRUE).bonus_amount,
           total_tasks |-> 0, completed_tasks |-> 0, completed_on_time |-> 0]]
    /\ response' = Answer("get_or_create", 0)
    /\ UNCHANGED <<projects, tasks, notifications, statistics, now, accounts>>

CreateStatistics_NoUniqueKey(w) ==
    /\ inflight[w] # Idle
    /\ inflight[w].pc = "create"
    /\ LET c == inflight[w] IN
       /\ statistics' = statistics
                           \cup {DefaultStatistics(c.user, c.period_start, c.period_end)}
       /\ StatisticsFit
       /\ inflight' = [inflight EXCEPT ![w].pc = "count", ![w].created = TRUE]
    /\ response' = Answer("get_or_create", 0)
    /\ UNCHANGED <<projects, tasks, notifications, now, accounts>>

(* get_or_create after DoesNotExist: the INSERT, and on the IntegrityError *)
(* of unique_together (another call has inserted the key) self.get() again. *)
CreateStatistics(w) ==
    /\ inflight[w] # Idle
    /\ inflight[w].pc = "create"
    /\ LET c == inflight[w]
           old == StatisticsOfKey(c.user, c.period_start, c.period_end)
       IN IF old = {}
          THEN /\ statistics' = statistics
                      \cup {DefaultStatistics(c.user, c.period_start, c.period_end)}
               /\ StatisticsFit
               /\ inflight' = [inflight EXCEPT ![w].pc = "count", ![w].created = TRUE]
          ELSE /\ UNCHANGED statistics
               /\ inflight' = [inflight EXCEPT
                     ![w].pc = "count", ![w].integrity_error = TRUE,
                     ![w].bonus_amount = (CHOOSE s \in old : TRUE).bonus_amount]
    /\ response' = Answer("get_or_create", 0)
    /\ UNCHANGED <<projects, tasks, notifications, now, accounts>>

(* The three counts over assigned_tasks. *)
CountStatistics(w) ==
    /\ inflight[w] # Idle
    /\ inflight[w].pc = "count"
    /\ LET c == inflight[w]
           assigned == AssignedTasks(c.user, c.period_start, c.period_end)
           completed == {t \in assigned : tasks[t].status = "COMPLETED"}
           on_time == {t \in completed : /\ tasks[t].completion_date # NoDate
                                          /\ tasks[t].completion_date <= tasks[t].due_date}
       IN inflight' = [inflight EXCEPT
             ![w].pc = "save",
             ![w].total_tasks = Cardinality(assigned),
             ![w].completed_tasks = Cardinality(completed),
             ![w].completed_on_time = Cardinality(on_time)]
    /\ response' = Answer("count", 0)
    /\ UNCHANGED <<projects, tasks, notifications, statistics, now, accounts>>

(* stats.save(): the row of the key gets every field of the instance.      *)
SaveStatistics(w) ==
    /\ inflight[w] # Idle
    /\ inflight[w].pc = "save"
    /\ LET c == inflight[w] IN
       statistics' =
          (statistics \ StatisticsOfKey(c.user, c.period_start, c.period_end))
          \cup {StatisticsRow(c.user, c.period_start, c.period_end, c.total_tasks,
                              c.completed_tasks, c.completed_on_time, c.bonus_amount)}
    /\ inflight' = [inflight EXCEPT ![w].pc = "done"]
    /\ response' = Answer("save", 0)
    /\ UNCHANGED <<projects, tasks, notifications, now, accounts>>

(* return stats *)
ReturnStatistics(w) ==
    /\ inflight[w] # Idle
    /\ inflight[w].pc = "done"
    /\ inflight' = [inflight EXCEPT ![w] = Idle]
    /\ response' = Answer("generate_statistics", 0)
    /\ UNCHANGED <<projects, tasks, notifications, statistics, now, accounts>>

(* Specification of concurrent statistics: tasks are created and completed *)
(* while no call of generate_statistics is in progress, and the workers run *)
(* generate_statistics for periods that start on day 0.                     *)
StoreChange ==
    /\ CallsInProgress = {}
    /\ \/ \E actor \in Users : ProjectCreateSave(actor, "a")
       \/ \E p \in ProjectIds : ProjectCreateAddMember(p)
       \/ \E actor \in Users, data \in StatsTaskInputs : TaskCreate(actor, data)
       \/ \E actor \in Users, t \in TaskIds : UpdateStatus(actor, t, "COMPLETED")

NextConcurrent ==
    \/ StoreChange
    \/ \E w \in Workers, user \in Users, end_date \in {0, 1} :
          GetStatistics(w, user, 0, end_date)
    \/ \E w \in Workers : CreateStatistics(w)
    \/ \E w \in Workers : CountStatistics(w)
    \/ \E w \in Workers : SaveStatistics(w)
    \/ \E w \in Workers : ReturnStatistics(w)

SpecConcurrent == Init /\ [][NextConcurrent]_vars

----------------------------------------------------------------------------
(* Claims *)

Ok(status) == status \in {200, 201, 204}

(* C1: in every reachable state every task has a completion_date if and    *)
(* only if its status is COMPLETED.                                         *)
C1_CompletionDateIffCompleted ==
    \A t \in LiveTasks :
        (tasks[t].completion_date # NoDate) <=> (tasks[t].status = "COMPLETED")

(* C2: whenever a STUDENT names a PROFESSOR as assignee, task creation and  *)
(* reassignment are both answered with a permission error (403), whatever   *)
(* the other checks decide: the actor being project creator or task         *)
(* creator, the target being a project member.  The requests are otherwise *)
(* well-formed: the project exists, the due date is in the future, the task *)
(* is one the actor can address.                                            *)
C2_StudentToProfessorIsPermissionError ==
    \A actor \in Users, target \in Users :
        (role(actor) = "STUDENT" /\ role(target) = "PROFESSOR") =>
            /\ \A data \in TaskCreateInputs :
                  ( /\ data.assigned_to_id = target
                    /\ data.project_id \in LiveProjects
                    /\ data.due_date > now )
                  => TaskCreateStatus(actor, data) = 403
            /\ \A t \in TaskQueryset(actor) : ReassignStatus(actor, t, target) = 403

(* A step that is a request of the actor which can write assigned_to.       *)
AssigningRequestBy(actor) ==
    \/ \E data \in TaskCreateInputs : TaskCreate(actor, data)
    \/ \E t \in TaskIds, data \in TaskUpdateInputs : TaskUpdate(actor, t, data)
    \/ \E t \in TaskIds, u \in UserIdInputs : Reassign(actor, t, u)
    \/ \E p \in ProjectIds, u \in UserIdInputs, x \in RemoveMemberInputs :
          RemoveMember(actor, p, u, x[1], x[2])

(* C3: no request of a STUDENT (task creation, reassign, generic update,    *)
(* remove_member with reassignment) sets a task's assigned_to to a          *)
(* PROFESSOR.                                                               *)
C3_NoStudentAssignsProfessor ==
    [][\A actor \in Users, t \in TaskIds :
          ( /\ role(actor) = "STUDENT"
            /\ AssigningRequestBy(actor)
            /\ tasks'[t].st = "live"
            /\ role(tasks'[t].assigned_to) = "PROFESSOR" )
          => tasks[t].st = "live" /\ tasks[t].assigned_to = tasks'[t].assigned_to]_vars

(* C4: update, delete, add_member and remove_member of a project are        *)
(* allowed if and only if the actor is the project's creator (the creator   *)
(* once the creation request has made it a member, see C9).                 *)
C4_ProjectWriteIffCreator ==
    \A p \in LiveProjects, actor \in Users :
        LET allowed == actor = projects[p].creator IN
        /\ Ok(ProjectUpdateStatus(actor, p)) => allowed
        /\ Ok(ProjectDestroyStatus(actor, p)) => allowed
        /\ \A u \in Users : Ok(AddMemberStatus(actor, p, u)) => allowed
        /\ \A u \in Users : Ok(RemoveMemberStatus(actor, p, u)) => allowed
        /\ (allowed /\ actor \in projects[p].members) =>
              /\ Ok(ProjectUpdateStatus(actor, p))
              /\ Ok(ProjectDestroyStatus(actor, p))

(* C5: a task can be read by an actor if and only if the actor is a member *)
(* of the task's project.                                                   *)
C5_TaskReadIffProjectMember ==
    \A actor \in Users, t \in LiveTasks :
        (t \in TasksReadableBy(actor)) <=> (actor \in projects[tasks[t].project].members)

(* C6: a project can be read by an actor if and only if the actor is one of *)
(* its members.                                                             *)
C6_ProjectReadIffMember ==
    \A actor \in Users, p \in LiveProjects :
        (p \in ProjectsReadableBy(actor)) <=> (actor \in projects[p].members)

(* C7: update_status is accepted only from the creator of the task's        *)
(* project or the task's current assignee.                                  *)
C7_UpdateStatusOnlyCreatorOrAssignee ==
    \A actor \in Users, t \in LiveTasks, sv \in STATUS_CHOICES :
        Ok(UpdateStatusStatus(actor, t, sv)) =>
            \/ actor = projects[tasks[t].project].creator
            \/ actor = tasks[t].assigned_to

(* C8: no request hands a STUDENT the statistics of another user: not the   *)
(* statistics list, and not GET /users/<target>/statistics/.                *)
C8_StudentReadsOnlyOwnStatistics ==
    [][\A actor \in Users :
          role(actor) = "STUDENT" =>
             /\ \A s \in StatisticsQueryset(actor) : s.user = actor
             /\ \A target \in Users \ {actor}, period \in Periods :
                   ~(UserStatistics(actor, target, period) /\ Ok(response'.status))]_vars

(* C9: in every reachable state the creator of every project is one of its *)
(* members.                                                                 *)
C9_CreatorIsMember ==
    \A p \in LiveProjects : projects[p].creator \in projects[p].members

(* C10: remove_member naming the project's creator is refused for every     *)
(* caller and every reassign_tasks / new_assignee_id, and a refused         *)
(* remove_member leaves the member sets and the tasks as they were; no      *)
(* remove_member request takes the creator out of the member set.           *)
C10_RemoveCreatorFails ==
    /\ [](\A p \in LiveProjects, actor \in Users :
             ~Ok(RemoveMemberStatus(actor, p, projects[p].creator)))
    /\ [][(response'.op = "remove_member" /\ ~Ok(response'.status))
             => UNCHANGED <<projects, tasks>>]_vars
    /\ [][\A p \in ProjectIds :
             ( /\ response'.op = "remove_member"
               /\ projects[p].st = "live"
               /\ projects[p].creator \in projects[p].members )
             => projects[p].creator \in projects'[p].members]_vars

(* C10 witness: remove_member was just refused with 400 (the target is the *)
(* creator) in a project that has another member and a task to reassign.    *)
C10_Witness ==
    /\ response = Answer("remove_member", 400)
    /\ \E p \in LiveProjects, t \in LiveTasks :
          /\ tasks[t].project = p
          /\ tasks[t].assigned_to = projects[p].creator
          /\ projects[p].members # {projects[p].creator}

(* A well-formed creation request of a member of the project who is not    *)
(* its creator, naming an existing user as assignee.                        *)
NonCreatorMemberCreates(actor, data) ==
    /\ data.project_id \in LiveProjects
    /\ actor \in projects[data.project_id].members
    /\ actor # projects[data.project_id].creator
    /\ data.assigned_to_id \in Users
    /\ data.due_date > now

(* C11 as stated: a task creation by a non-creator member succeeds only if *)
(* assigned_to is the actor, and with any other assignee it is answered     *)
(* with a permission error (403).                                           *)
C11_OtherAssigneeIsPermissionError ==
    \A actor \in Users, data \in TaskCreateInputs :
        NonCreatorMemberCreates(actor, data) =>
            /\ TaskCreateStatus(actor, data) = 201 => data.assigned_to_id = actor
            /\ data.assigned_to_id # actor => TaskCreateStatus(actor, data) = 403

(* C11 amended: a task creation by a non-creator member succeeds only if    *)
(* assigned_to is the actor; with another member of the project as assignee *)
(* it is answered with a permission error (403), with a user who is not a   *)
(* member with a validation error (400); a refused creation creates no task *)
(* and no notification, and every task created by someone other than the    *)
(* project's creator is assigned to the one who created it.                 *)
C11_NonCreatorAssignsOnlySelf ==
    /\ [](\A actor \in Users, data \in TaskCreateInputs :
            NonCreatorMemberCreates(actor, data) =>
               /\ TaskCreateStatus(actor, data) = 201 => data.assigned_to_id = actor
               /\ ( /\ data.assigned_to_id # actor
                    /\ data.assigned_to_id \in projects[data.project_id].members )
                  => TaskCreateStatus(actor, data) = 403
               /\ data.assigned_to_id \notin projects[data.project_id].members
                  => TaskCreateStatus(actor, data) = 400)
    /\ [][(response'.op = "task_create" /\ ~Ok(response'.status))
             => UNCHANGED <<tasks, notifications>>]_vars
    /\ [][\A t \in TaskIds :
             ( /\ response'.op = "task_create"
               /\ tasks[t].st = "free" /\ tasks'[t].st = "live"
               /\ tasks'[t].created_by # projects[tasks'[t].project].creator )
             => tasks'[t].assigned_to = tasks'[t].created_by]_vars

(* C11 witness: a creation was just refused with 403 in a project created   *)
(* by the professor of which every user is a member: the actor was a member *)
(* other than the creator naming someone else.                              *)
C11_Witness ==
    /\ response = Answer("task_create", 403)
    /\ \E p \in LiveProjects :
          projects[p].creator = "prof1" /\ projects[p].members = Users

(* C12: every successful task creation stores created_by = the actor and   *)
(* adds exactly one notification: TASK_ASSIGNED, addressed to the task's    *)
(* assigned_to, related to the new task and its project.                    *)
C12_CreationNotifiesAssignee ==
    [][(response'.op = "task_create" /\ response'.status = 201) =>
       \A actor \in Users, data \in TaskCreateInputs :
          TaskCreate(actor, data) =>
             \E t \in TaskIds :
                /\ tasks[t].st = "free" /\ tasks'[t].st = "live"
                /\ tasks'[t].created_by = actor
                /\ \E n \in BagToSet(notifications') :
                      /\ n.type = "TASK_ASSIGNED"
                      /\ n.user = tasks'[t].assigned_to
                      /\ n.related_task = t
                      /\ n.related_project = tasks'[t].project
                      /\ ~n.read
                      /\ notifications' = notifications (+) SetToBag({n})]_vars

(* C12 witness: a task was just created by someone for someone else, whose *)
(* TASK_ASSIGNED notification is in the table.                              *)
C12_Witness ==
    /\ response = Answer("task_create", 201)
    /\ \E t \in LiveTasks :
          /\ tasks[t].assigned_to # tasks[t].created_by
          /\ \E n \in BagToSet(notifications) :
                /\ n.type = "TASK_ASSIGNED" /\ n.user = tasks[t].assigned_to
                /\ n.related_task = t

(* C13: reassign is accepted only from the creator of the task's project or *)
(* the task's created_by, and only for a new assignee who is a member of    *)
(* the project; a refused reassign leaves assigned_to as it was and creates *)
(* no notification.                                                         *)
C13_ReassignRejections ==
    /\ [](\A actor \in Users, t \in LiveTasks, u \in UserIdInputs :
            Ok(ReassignStatus(actor, t, u)) =>
               /\ \/ actor = projects[tasks[t].project].creator
                  \/ actor = tasks[t].created_by
               /\ u \in projects[tasks[t].project].members)
    /\ [][(response'.op = "reassign" /\ ~Ok(response'.status))
             => UNCHANGED <<tasks, notifications>>]_vars
    /\ [][\A t \in TaskIds :
             ( /\ response'.op = "reassign"
               /\ tasks[t].st = "live"
               /\ tasks'[t].assigned_to # tasks[t].assigned_to )
             => tasks'[t].assigned_to \in projects[tasks[t].project].members]_vars

(* C13 witness: a reassign was just refused with 400 on a task the project's *)
(* creator, a professor, created, in a project some user is not a member    *)
(* of: the refusal is the membership one.                                   *)
C13_Witness ==
    /\ response = Answer("reassign", 400)
    /\ \E t \in LiveTasks :
          /\ projects[tasks[t].project].creator = "prof1"
          /\ tasks[t].created_by = "prof1"
          /\ projects[tasks[t].project].members # Users

(* C14: every step that writes a task row (creates it or changes one of its *)
(* fields) adds the notifications the post-save rule gives for that row.    *)
C14_PostSaveNeverBypassed ==
    [][\A t \in TaskIds :
          (tasks'[t].st = "live" /\ tasks'[t] # tasks[t]) =>
             \A n \in BagToSet(create_task_notifications(t, tasks'[t], tasks[t].st # "live")) :
                CopiesIn(n, notifications') > CopiesIn(n, notifications)]_vars

(* C20: add_member by the project's creator for a user who is not a member  *)
(* adds the user and exactly one PROJECT_INVITATION notification for the    *)
(* user; for a user who is already a member it is refused with a validation *)
(* error (400) and changes neither the members nor the notifications.       *)
C20_AddMember ==
    /\ [](\A p \in LiveProjects, u \in Users :
            projects[p].creator \in projects[p].members =>
               AddMemberStatus(projects[p].creator, p, u)
                  = IF u \in projects[p].members THEN 400 ELSE 200)
    /\ [][(response'.op = "add_member" /\ response'.status = 200) =>
          \A actor \in Users, p \in ProjectIds, u \in Users :
             AddMember(actor, p, u) =>
                /\ u \notin projects[p].members
                /\ projects'[p].members = projects[p].members \cup {u}
                /\ \E n \in BagToSet(notifications') :
                      /\ n.type = "PROJECT_INVITATION" /\ n.user = u
                      /\ n.related_project = p
                      /\ notifications' = notifications (+) SetToBag({n})]_vars
    /\ [][(response'.op = "add_member" /\ ~Ok(response'.status))
             => UNCHANGED <<projects, notifications>>]_vars

(* C20 witness: add_member was just refused with 400 (already a member) in *)
(* a project that has a member besides its creator.                         *)
C20_Witness ==
    /\ response = Answer("add_member", 400)
    /\ \E p \in LiveProjects :
          /\ projects[p].creator \in projects[p].members
          /\ projects[p].members # {projects[p].creator}

(* A statistics request that was just answered with its record.             *)
StatisticsAnswered ==
    /\ response'.op \in {"user_statistics", "statistics_summary"}
    /\ Ok(response'.status)

(* A second call for the record's key, made in the state the step leaves,  *)
(* gives the record again and leaves the table as it is.                    *)
RegeneratedSame(s) ==
    /\ (GeneratedStatistics(s.user, s.period_start, s.period_end))' = s
    /\ (generate_statistics({s.user}, s.period_start, s.period_end))' = statistics'

(* C15: generate_statistics is idempotent: the table never holds two        *)
(* records for the same (user, period_start, period_end), and calling it    *)
(* again right after a call, with the tasks as they are, gives the record   *)
(* just stored and leaves the table as it is: so for every record a         *)
(* statistics request writes, and for a record of today's period end.       *)
C15_GenerateStatisticsIdempotent ==
    /\ [](\A s1, s2 \in statistics : StatsKey(s1) = StatsKey(s2) => s1 = s2)
    /\ [][StatisticsAnswered =>
            /\ \A s \in statistics' \ statistics : RegeneratedSame(s)
            /\ \E s \in statistics' : s.period_end = Today /\ RegeneratedSame(s)]_vars

(* C15 witness: a statistics request was just answered and the table holds *)
(* two records of the same user (for two periods), one of which counts a    *)
(* task.                                                                    *)
C15_Witness ==
    /\ response = Answer("user_statistics", 200)
    /\ \E s1, s2 \in statistics :
          /\ s1 # s2 /\ s1.user = s2.user
          /\ s1.total_tasks > 0

(* C16: in every record generate_statistics produces, a STUDENT's           *)
(* bonus_amount is 0; a PROFESSOR's is 100000 when on_time_rate is 100,     *)
(* 30000 when it is at least 90 and below 100, and 0 otherwise; with        *)
(* total_tasks = 0 both rates and the bonus are 0.  (Rates are in           *)
(* hundredths of a percent.)                                                *)
C16_BonusTiers ==
    \A s \in statistics :
        /\ role(s.user) = "STUDENT" => s.bonus_amount = 0
        /\ role(s.user) = "PROFESSOR" =>
              s.bonus_amount = IF s.on_time_rate = 100 * 100 THEN 100000
                               ELSE IF s.on_time_rate >= 90 * 100 THEN 30000
                               ELSE 0
        /\ s.total_tasks = 0 =>
              s.completion_rate = 0 /\ s.on_time_rate = 0 /\ s.bonus_amount = 0

(* C16 witness: a professor's record with an on_time_rate of exactly 90     *)
(* and the bonus of 30000.                                                  *)
C16_Witness ==
    \E s \in statistics :
        /\ role(s.user) = "PROFESSOR"
        /\ s.on_time_rate = 90 * 100
        /\ s.bonus_amount = 30000

(* The counts of the claim, on the tasks as they are. *)
DueInPeriod(user, s) ==
    {t \in LiveTasks : /\ tasks[t].assigned_to = user
                       /\ Midnight(s.period_start) <= tasks[t].due_date
                       /\ tasks[t].due_date <= Midnight(s.period_end)}

CountsOfStore(s) ==
    /\ s.total_tasks = Cardinality(DueInPeriod(s.user, s))
    /\ s.completed_tasks =
          Cardinality({t \in DueInPeriod(s.user, s) : tasks[t].status = "COMPLETED"})
    /\ s.completed_on_time =
          Cardinality({t \in DueInPeriod(s.user, s) :
                          /\ tasks[t].status = "COMPLETED"
                          /\ tasks[t].completion_date # NoDate
                          /\ tasks[t].completion_date <= tasks[t].due_date})

OnlyTaskCompletedEarly(user) ==
    /\ \E t \in LiveTasks : tasks[t].assigned_to = user
    /\ \A t \in LiveTasks :
          tasks[t].assigned_to = user =>
             /\ tasks[t].status = "COMPLETED"
             /\ tasks[t].completion_date # NoDate
             /\ tasks[t].completion_date < tasks[t].due_date
             /\ tasks[t].due_date >= now + TicksPerDay

(* C18: for a user whose only assigned task is COMPLETED before its due     *)
(* date, due a day or more after the request, GET /users/<u>/statistics/    *)
(* with the default period answers total_tasks = 1, completed_tasks = 1,    *)
(* completed_on_time = 1, both rates 100, and bonus_amount = 100000 for a   *)
(* PROFESSOR.                                                               *)
C18_UserStatisticsCountsDueLater ==
    [][(response'.op = "user_statistics" /\ Ok(response'.status)) =>
         \A actor, target \in Users :
            (UserStatistics(actor, target, "trimester") /\ OnlyTaskCompletedEarly(target)) =>
               \A s \in statistics' :
                  (s.user = target /\ s.period_end = Today) =>
                     /\ s.total_tasks = 1
                     /\ s.completed_tasks = 1
                     /\ s.completed_on_time = 1
                     /\ s.completion_rate = 100 * 100
                     /\ s.on_time_rate = 100 * 100
                     /\ role(target) = "PROFESSOR" => s.bonus_amount = 100000]_vars

(* The notifications addressed to users other than the actor. *)
NotificationsOfOthers(B, actor) == BagFilter(B, LAMBDA n : n.user # actor)

(* C19: only the recipient reads or marks a notification: the rows the      *)
(* notification endpoints hand to an actor are addressed to the actor,      *)
(* mark_as_read is accepted exactly when the actor is the notification's    *)
(* user, and no mark_as_read or mark_all_as_read of an actor changes a      *)
(* notification addressed to another user.                                  *)
C19_OnlyRecipientReadsOrMarks ==
    /\ [](\A actor \in Users :
            /\ \A n \in BagToSet(NotificationQueryset(actor)) : n.user = actor
            /\ \A n \in BagToSet(UnreadNotifications(actor)) : n.user = actor
            /\ \A n \in BagToSet(notifications) :
                  Ok(MarkAsReadStatus(actor, n)) <=> n.user = actor)
    /\ [][(response'.op \in {"mark_as_read", "mark_all_as_read"}) =>
            \A actor \in Users :
               ( \/ \E n \in BagToSet(notifications) \cup {NoNotification} :
                       MarkAsRead(actor, n)
                 \/ MarkAllAsRead(actor) )
               => NotificationsOfOthers(notifications', actor)
                     = NotificationsOfOthers(notifications, actor)]_vars

(* C19 witness: a user just marked a notification read while an unread      *)
(* notification of another user is in the table.                            *)
C19_Witness ==
    /\ response = Answer("mark_as_read", 200)
    /\ \E n1, n2 \in BagToSet(notifications) :
          n1.read /\ ~n2.read /\ n1.user # n2.user

----------------------------------------------------------------------------
----------------------------------------------------------------------------
(* C23: update_status with COMPLETED on a task that is not COMPLETED sets  *)
(* completion_date to the current time; with COMPLETED on a COMPLETED task *)
(* it keeps completion_date; with TODO or IN_PROGRESS it sets it to null;   *)
(* with any other status it is refused and changes nothing.                 *)
C23_UpdateStatusCompletionDate ==
    [][response'.op = "update_status"
       => \A actor \in Users, t \in TaskIds, sv \in STATUS_CHOICES \cup {"DONE"} :
             UpdateStatus(actor, t, sv)
             => IF sv \notin STATUS_CHOICES
                THEN /\ ~Ok(response'.status)
                     /\ UNCHANGED <<projects, tasks, notifications, statistics>>
                ELSE Ok(response'.status)
                     => /\ tasks'[t].status = sv
                        /\ tasks'[t].completion_date =
                              IF sv # "COMPLETED" THEN NoDate
                              ELSE IF tasks[t].status = "COMPLETED"
                                   THEN tasks[t].completion_date
                                   ELSE now]_vars

(* update_status has just answered 200 on a task that was completed at an  *)
(* earlier time: COMPLETED was sent for a COMPLETED task.                   *)
C23_Witness ==
    /\ response = Answer("update_status", 200)
    /\ \E t \in LiveTasks :
          /\ tasks[t].status = "COMPLETED"
          /\ tasks[t].completion_date # NoDate
          /\ tasks[t].completion_date < now

----------------------------------------------------------------------------
(* The TASK_COMPLETED rows of bag B that are about task t. *)
TaskCompletedCount(B, t) ==
    BagCardinality(BagFilter(B, LAMBDA n : n.type = "TASK_COMPLETED" /\ n.related_task = t))

(* The step saved existing task t and the signal's rule holds of it: the   *)
(* step added one TASK_COMPLETED row, for created_by, if and only if the    *)
(* saved row is COMPLETED with a completion date and created_by is not the  *)
(* assignee.                                                                *)
CompletionRule(t) ==
    LET row == tasks'[t]
        due == /\ row.status = "COMPLETED"
               /\ row.completion_date # NoDate
               /\ row.created_by # row.assigned_to
        new == Notif(row.created_by, "TASK_COMPLETED", t, row.project)
    IN  /\ TaskCompletedCount(notifications', t) =
              TaskCompletedCount(notifications, t) + (IF due THEN 1 ELSE 0)
        /\ due => CopiesIn(new, notifications') = CopiesIn(new, notifications) + 1

(* C24: every save of an existing task creates a TASK_COMPLETED            *)
(* notification for created_by if and only if the saved task is COMPLETED  *)
(* with a completion date and created_by differs from assigned_to; a task   *)
(* whose created_by is its assignee gets none.                              *)
C24_CompletedNotificationRule ==
    /\ [][(response'.op = "update_status" /\ response'.status = 200)
          => \A actor \in Users, t \in TaskIds, sv \in STATUS_CHOICES :
                UpdateStatus(actor, t, sv) => CompletionRule(t)]_vars
    /\ [][(response'.op = "task_update" /\ response'.status = 200)
          => \A actor \in Users, t \in TaskIds, data \in LifeUpdateInputs :
                TaskUpdate(actor, t, data) => CompletionRule(t)]_vars
    /\ [][(response'.op = "reassign" /\ response'.status = 200)
          => \A actor \in Users, t \in TaskIds, u \in Users :
                Reassign(actor, t, u) => CompletionRule(t)]_vars
    /\ [][response'.op = "mark_completed"
          => \A t \in TaskIds : mark_completed(t) => CompletionRule(t)]_vars

(* update_status has just completed a task whose created_by is not its     *)
(* assignee, and created_by has the TASK_COMPLETED notification of it.      *)
C24_Witness ==
    /\ response = Answer("update_status", 200)
    /\ \E t \in LiveTasks :
          /\ tasks[t].status = "COMPLETED"
          /\ tasks[t].completion_date = now
          /\ tasks[t].created_by # tasks[t].assigned_to
          /\ BagIn(Notif(tasks[t].created_by, "TASK_COMPLETED", t, tasks[t].project),
                   notifications)

----------------------------------------------------------------------------
(* Task t is COMPLETED with a completion date in the current state. *)
CompletedBefore(t) ==
    /\ t \in LiveTasks
    /\ tasks[t].status = "COMPLETED"
    /\ tasks[t].completion_date # NoDate

----------------------------------------------------------------------------
(* C29: in every reachable state the assignee of every task is a member of *)
(* the task's project.                                                      *)
C29_AssigneeIsMember ==
    \A t \in LiveTasks : tasks[t].assigned_to \in projects[tasks[t].project].members


(* C29, amended: the assignee is a member of the task's project when the   *)
(* task is created and when the reassign route has reassigned it.           *)
C29_MemberAtCreationAndReassign ==
    /\ [][(response'.op = "task_create" /\ response'.status = 201)
          => \A t \in TaskIds :
                (tasks[t].st = "free" /\ tasks'[t].st = "live")
                => tasks'[t].assigned_to \in projects'[tasks'[t].project].members]_vars
    /\ [][(response'.op = "reassign" /\ response'.status = 200)
          => \A actor \in Users, t \in TaskIds, u \in UserIdInputs :
                Reassign(actor, t, u)
                => /\ tasks'[t].assigned_to = u
                   /\ u \in projects'[tasks'[t].project].members]_vars

(* The reassign route has just given a task to a member of its project.     *)
C29_Witness ==
    /\ response = Answer("reassign", 200)
    /\ \E t \in LiveTasks : tasks[t].assigned_to \in projects[tasks[t].project].members

----------------------------------------------------------------------------
(* The listed tasks come by due_date ascending, and by priority descending *)
(* among tasks of equal due_date.                                           *)
DefaultOrdered(seq) ==
    \A i, j \in DOMAIN seq :
        i < j => \/ tasks[seq[i]].due_date < tasks[seq[j]].due_date
                 \/ /\ tasks[seq[i]].due_date = tasks[seq[j]].due_date
                    /\ tasks[seq[i]].priority >= tasks[seq[j]].priority

(* C21: a task list requested without sort_by, or with a sort_by outside   *)
(* {title, due_date, created_at, priority}, comes ordered by due_date       *)
(* ascending with ties broken by priority descending.                       *)
C21_DefaultSort ==
    [][response'.op = "task_list"
       => \A actor \in Users, sort_by \in {Absent, "rank"},
             sort_direction \in {Absent, "asc", "desc"} :
             TaskList(actor, sort_by, sort_direction) => DefaultOrdered(response'.results)]_vars

----------------------------------------------------------------------------
(* The scan selects task t: TODO or IN_PROGRESS and due within the 24      *)
(* hours before the run.                                                    *)
ScanSelects(t) ==
    /\ t \in LiveTasks
    /\ tasks[t].status # "COMPLETED"
    /\ tasks[t].due_date <= now
    /\ now - tasks[t].due_date <= TicksPerDay

(* C26: a run of the overdue scan creates, for every task it selects, one  *)
(* TASK_OVERDUE notification for the assignee and, when created_by is       *)
(* another user, one for created_by; it creates nothing else (nothing for   *)
(* a COMPLETED task) and does so whatever an earlier run has created.       *)
C26_OverdueScan ==
    [][response'.op = "create_overdue_notifications"
       => /\ \A t \in TaskIds, u \in Users :
                LET n == Notif(u, "TASK_OVERDUE", t, tasks[t].project) IN
                CopiesIn(n, notifications') =
                   CopiesIn(n, notifications)
                   + (IF ScanSelects(t) /\ u \in {tasks[t].assigned_to, tasks[t].created_by}
                      THEN 1 ELSE 0)
          /\ BagCardinality(notifications') =
                BagCardinality(notifications)
                + Cardinality({x \in TaskIds \X Users :
                                  /\ ScanSelects(x[1])
                                  /\ x[2] \in {tasks[x[1]].assigned_to,
                                               tasks[x[1]].created_by}})
          /\ \A n \in BagToSet(notifications) :
                CopiesIn(n, notifications') >= CopiesIn(n, notifications)]_vars

(* Two runs at the same time have left two TASK_OVERDUE notifications for  *)
(* the assignee and two for created_by.                                     *)
C26_Witness ==
    /\ response.op = "create_overdue_notifications"
    /\ \E t \in LiveTasks :
          /\ tasks[t].created_by # tasks[t].assigned_to
          /\ CopiesIn(Notif(tasks[t].assigned_to, "TASK_OVERDUE", t, tasks[t].project),
                      notifications) = 2
          /\ CopiesIn(Notif(tasks[t].created_by, "TASK_OVERDUE", t, tasks[t].project),
                      notifications) = 2

(* C28: the retention sweep deletes the notifications that are read and    *)
(* were created more than 30 days before the run, and leaves every other    *)
(* notification (unread, or 30 days old or younger) as it is.               *)
C28_RetentionSweep ==
    [][response'.op = "clean_old_notifications"
       => \A n \in BagToSet(notifications) \cup BagToSet(notifications') :
             CopiesIn(n, notifications') =
                IF n.read /\ now - n.created_at > RetentionDays * TicksPerDay
                THEN 0 ELSE CopiesIn(n, notifications)]_vars

(* After a sweep a read notification created exactly 30 days ago and an    *)
(* unread one created earlier are in the table.                             *)
C28_Witness ==
    /\ response.op = "clean_old_notifications"
    /\ \E n \in BagToSet(notifications) :
          n.read /\ now - n.created_at = RetentionDays * TicksPerDay
    /\ \E n \in BagToSet(notifications) :
          ~n.read /\ now - n.created_at > RetentionDays * TicksPerDay

----------------------------------------------------------------------------
(* Bag B holds a row of the type for the user about task t and project p. *)
Notified(u, type, t, p) ==
    \E n \in BagToSet(notifications) :
        n.user = u /\ n.type = type /\ n.related_task = t /\ n.related_project = p

(* C25: add_member, task creation, update_status and reassign are atomic   *)
(* with their notification: when no call is in progress (also after a call  *)
(* has failed between its writes) every invited member has the invitation, *)
(* every task's assignee has the TASK_ASSIGNED notification, and the        *)
(* created_by of every completed task of another assignee has the           *)
(* TASK_COMPLETED notification.                                             *)
C25_MutationWithNotification ==
    (\A w \in Workers : inflight[w] = Idle)
    => /\ \A p \in LiveProjects : \A u \in projects[p].members \ {projects[p].creator} :
             Notified(u, "PROJECT_INVITATION", UnknownId, p)
       /\ \A t \in LiveTasks :
             /\ Notified(tasks[t].assigned_to, "TASK_ASSIGNED", t, tasks[t].project)
             /\ (/\ tasks[t].status = "COMPLETED"
                 /\ tasks[t].completion_date # NoDate
                 /\ tasks[t].created_by # tasks[t].assigned_to)
                => Notified(tasks[t].created_by, "TASK_COMPLETED", t, tasks[t].project)

----------------------------------------------------------------------------
(* The call of worker w has saved, and no other call for the same key is   *)
(* before its save.                                                         *)
LastSaved(w) ==
    /\ inflight[w] # Idle
    /\ inflight[w].pc = "done"
    /\ \A v \in CallsInProgress :
          inflight[v].pc # "done"
          => <<inflight[v].user, inflight[v].period_start, inflight[v].period_end>>
                # <<inflight[w].user, inflight[w].period_start, inflight[w].period_end>>

(* C27: concurrent calls of generate_statistics for the same user and      *)
(* period, over an unchanged task store, leave exactly one record of the    *)
(* key, with the fields a single call gives it; no key ever has two         *)
(* records.                                                                 *)
C27_ConcurrentGenerateStatistics ==
    /\ \A s1, s2 \in statistics : StatsKey(s1) = StatsKey(s2) => s1 = s2
    /\ \A w \in Workers :
          LastSaved(w)
          => LET c == inflight[w] IN
             StatisticsOfKey(c.user, c.period_start, c.period_end) =
                {GeneratedStatistics(c.user, c.period_start, c.period_end)}

(* Two calls for the same key have both saved; one inserted the record and *)
(* the other one, which had not found it, met the unique key on its insert; *)
(* the record counts a task.                                                *)
C27_Witness ==
    \E w, v \in Workers :
        /\ inflight[w] # Idle /\ inflight[v] # Idle
        /\ inflight[w].pc = "done" /\ inflight[v].pc = "done"
        /\ inflight[w].created /\ inflight[v].integrity_error
        /\ inflight[w].user = inflight[v].user
        /\ inflight[w].period_end = inflight[v].period_end
        /\ \E s \in StatisticsOfKey(inflight[w].user, 0, inflight[w].period_end) :
              s.total_tasks > 0

====
